---------------------------- MODULE Spec2Model ----------------------------
(***************************************************************************)
(* A model of the recommendations backend.                                 *)
(*                                                                         *)
(*   src/api/recs.js  lines   1-115 : the raw-fetch handler, pickFromHtml  *)
(*   src/api/recs.js  lines 117-393 : the rendering-engine server with the *)
(*                                    shared browser/context and the cache *)
(*   src/server.js                  : the rendering-engine server that     *)
(*                                    opens one context per request        *)
(*                                                                         *)
(* Text (ids, titles, urls, hrefs) is a sequence of strings, one character *)
(* or one chunk of characters per element; <<>> is the empty string, which *)
(* is also how a missing (undefined / null / "") text field is written:    *)
(* the code tests all of them with the same truthiness test.               *)
(* The duration field of an item is read by no operation modelled here and *)
(* is left out of the items.                                               *)
(***************************************************************************)
EXTENDS Naturals, Sequences, FiniteSets, TLC

(***************************************************************************)
(* Program constants                                                       *)
(***************************************************************************)
MAX_ITEMS == 12

CACHE_TTL_MS == 5 * 60 * 1000

(***************************************************************************)
(* Bounds of the model                                                     *)
(***************************************************************************)
\* requests the process receives in one behaviour
NumReq == 2
\* advances of the clock in one behaviour
MaxTicks == 1
\* length of the run of distinct entries in an extraction input
MaxRun == 14
\* length of the arbitrary prefix and suffix around that run
MaxAffix == 1
\* how many requests the start-up of the session is followed through
NumSessionReq == 3
\* how many shutdown signals the process receives
MaxSignals == 2

(***************************************************************************)
(* Text helpers                                                            *)
(***************************************************************************)
Lower == {"a","b","c","d","e","f","g","h","i","j","k","l","m",
          "n","o","p","q","r","s","t","u","v","w","x","y","z"}
Upper == {"A","B","C","D","E","F","G","H","I","J","K","L","M",
          "N","O","P","Q","R","S","T","U","V","W","X","Y","Z"}
Digit == {"0","1","2","3","4","5","6","7","8","9"}

\* the character class [a-zA-Z0-9_-]  (the same set as [\w-])
IdChars == Lower \cup Upper \cup Digit \cup {"_", "-"}

WhiteSpace == {" ", "\t", "\n", "\r"}

\* String.prototype.trim
RECURSIVE TrimLeft(_)
TrimLeft(s) ==
    IF s # <<>> /\ Head(s) \in WhiteSpace THEN TrimLeft(Tail(s)) ELSE s

RECURSIVE TrimRight(_)
TrimRight(s) ==
    IF s # <<>> /\ s[Len(s)] \in WhiteSpace
    THEN TrimRight(SubSeq(s, 1, Len(s) - 1))
    ELSE s

Trim(s) == TrimRight(TrimLeft(s))

\* /^[a-zA-Z0-9_-]{6,}$/.test(videoId)
TestVideoId(s) == Len(s) >= 6 /\ \A i \in 1..Len(s) : s[i] \in IdChars

\* the longest prefix of s made of id characters: what the greedy class
\* ([a-zA-Z0-9_-]{6,}) or ([\w-]{6,}) captures when it matches at the start of s
RECURSIVE IdRun(_)
IdRun(s) ==
    IF s # <<>> /\ Head(s) \in IdChars THEN <<Head(s)>> \o IdRun(Tail(s)) ELSE <<>>

\* `https://img.youtube.com/vi/${id}/hqdefault.jpg`
CanonThumb(id) == <<"https://img.youtube.com/vi/">> \o id \o <<"/hqdefault.jpg">>

\* str.replace(/pat/g, rep) for a literal pattern
RECURSIVE ReplaceAll(_, _, _)
ReplaceAll(s, pat, rep) ==
    IF Len(s) < Len(pat) THEN s
    ELSE IF SubSeq(s, 1, Len(pat)) = pat
         THEN rep \o ReplaceAll(SubSeq(s, Len(pat) + 1, Len(s)), pat, rep)
         ELSE <<Head(s)>> \o ReplaceAll(Tail(s), pat, rep)

decodeEntities(str) ==
    LET s1 == ReplaceAll(str, <<"&","a","m","p",";">>, <<"&">>)
        s2 == ReplaceAll(s1, <<"&","l","t",";">>, <<"<">>)
        s3 == ReplaceAll(s2, <<"&","g","t",";">>, <<">">>)
        s4 == ReplaceAll(s3, <<"&","q","u","o","t",";">>, <<"\"">>)
    IN  ReplaceAll(s4, <<"&","#","3","9",";">>, <<"'">>)

\* titleRuns.map(t => t.text || '').join('')
RECURSIVE JoinRuns(_)
JoinRuns(runs) ==
    IF runs = <<>> THEN <<>> ELSE Head(runs) \o JoinRuns(Tail(runs))


(***************************************************************************)
(* Extraction: the structured tier (page.evaluate over ytInitialData)      *)
(*                                                                         *)
(* The value found at ...secondaryResults.results is                       *)
(*   [shape |-> "absent"]  undefined or another falsy value: `|| []`       *)
(*   [shape |-> "object"]  a truthy value that is not iterable             *)
(*   [shape |-> "array"]   a list of entries                               *)
(* and an entry r is a record [k, id, title, runs, thumbs] with k one of   *)
(*   "null"     r is null or undefined                                     *)
(*   "prim"     r is a number, a string or a boolean                       *)
(*   "other"    r is an object of no known shape                           *)
(*   "lockup"   r.lockupViewModel, id = contentId, title = title.content   *)
(*   "compact"  r.compactVideoRenderer, id = videoId, runs = title.runs    *)
(*   "autoplay" r.compactAutoplayRenderer.content.compactVideoRenderer     *)
(* thumbs is the image-source / thumbnails list, each element              *)
(* [obj |-> is it an object, url |-> its url].                             *)
(***************************************************************************)
Item(id, title, thumb) == [id |-> id, title |-> title, thumb |-> thumb]

Returned(items) == [threw |-> FALSE, items |-> items]
Threw == [threw |-> TRUE, items |-> <<>>]

\* a || b on text: the empty string is falsy
OrElse(a, b) == IF a # <<>> THEN a ELSE b

\* (list[list.length - 1] || list[0] || {}).url || canonical
PickThumb(list, id) ==
    LET n   == Len(list)
        url == IF n = 0 THEN <<>>
               ELSE IF list[n].obj THEN list[n].url
               ELSE IF list[1].obj THEN list[1].url
               ELSE <<>>
    IN  OrElse(url, CanonThumb(id))

\* if (!id || seen.has(id)) continue;
SkipIdMut(id, seen) == id = <<>>
SkipId(id, seen) == id = <<>> \/ id \in seen

\* if (out.length >= max) break;
CapReachedMut(out, max) == Len(out) > max
CapReached(out, max) == Len(out) >= max

LockupItem(r) == Item(r.id, OrElse(r.title, r.id), PickThumb(r.thumbs, r.id))

CompactItem(r) == Item(r.id, OrElse(JoinRuns(r.runs), r.id), PickThumb(r.thumbs, r.id))

RECURSIVE StructLoop(_, _, _, _, _)
StructLoop(results, i, out, seen, max) ==
    IF i > Len(results) THEN Returned(out)
    ELSE LET r == results[i] IN
         CASE r.k = "null" -> Threw
           [] r.k = "lockup" ->
                IF SkipId(r.id, seen) THEN StructLoop(results, i + 1, out, seen, max)
                ELSE LET out2 == Append(out, LockupItem(r)) IN
                     IF CapReached(out2, max) THEN Returned(out2)
                     ELSE StructLoop(results, i + 1, out2, seen \cup {r.id}, max)
           [] r.k \in {"compact", "autoplay"} ->
                IF SkipId(r.id, seen) THEN StructLoop(results, i + 1, out, seen, max)
                ELSE LET out2 == Append(out, CompactItem(r)) IN
                     IF CapReached(out2, max) THEN Returned(out2)
                     ELSE StructLoop(results, i + 1, out2, seen \cup {r.id}, max)
           [] OTHER -> StructLoop(results, i + 1, out, seen, max)

StructuredTier(data, max) ==
    CASE data.shape = "absent" -> Returned(<<>>)
      [] data.shape = "object" -> Threw
      [] OTHER -> StructLoop(data.list, 1, <<>>, {}, max)

(***************************************************************************)
(* Extraction: the rendered-DOM tier (page.$$eval over the cards)          *)
(*                                                                         *)
(* A card is [href, title, img]: the href attribute of the card's link     *)
(* (<<>> when the card has no link or the link no href), the textContent   *)
(* of its title element (<<>> when it has none) and the src of the link's  *)
(* image (<<>> when it has none).                                          *)
(***************************************************************************)
\* href.match(/v=([\w-]{6,})/): m ? m[1] : ''
RECURSIVE MatchV(_)
MatchV(href) ==
    IF Len(href) < 2 THEN <<>>
    ELSE IF href[1] = "v" /\ href[2] = "=" /\ Len(IdRun(SubSeq(href, 3, Len(href)))) >= 6
         THEN IdRun(SubSeq(href, 3, Len(href)))
         ELSE MatchV(Tail(href))

CardItem(card) ==
    LET id == MatchV(card.href) IN
    Item(id, OrElse(Trim(card.title), id), OrElse(card.img, CanonThumb(id)))

RECURSIVE DomLoop(_, _, _, _, _)
DomLoop(cards, i, out, seen, max) ==
    IF i > Len(cards) \/ CapReached(out, max) THEN out
    ELSE LET id == MatchV(cards[i].href) IN
         IF SkipId(id, seen) THEN DomLoop(cards, i + 1, out, seen, max)
         ELSE DomLoop(cards, i + 1, Append(out, CardItem(cards[i])), seen \cup {id}, max)

DomTier(cards, max) == DomLoop(cards, 1, <<>>, {}, max)

(***************************************************************************)
(* Extraction: pickFromHtml over the raw document                          *)
(*                                                                         *)
(* The document is the sequence of the places its two patterns look at:    *)
(*   [k |-> "h3", title] an <h3> open tag with the heading class and a     *)
(*                       title attribute (title is its raw value)          *)
(*   [k |-> "a", id]     an <a> tag with href="/watch?v=<id>" (id is the   *)
(*                       raw attribute value after v=)                     *)
(*   [k |-> "href", id]  href="/watch?v=<id>" in a tag that is not an <a>  *)
(*   [k |-> "text"]      anything else                                     *)
(***************************************************************************)
\* ([a-zA-Z0-9_-]{6,})[^"']*" against the attribute value after v=
HrefValueMatches(v) ==
    /\ Len(IdRun(v)) >= 6
    /\ \A i \in 1..Len(v) : v[i] # "'"

AnchorMatches(t) == t.k = "a" /\ HrefValueMatches(t.id)

Min(S) == CHOOSE x \in S : \A y \in S : x <= y

NoMatch == [found |-> FALSE, title |-> <<>>, id |-> <<>>, next |-> 0]

\* re.exec(html) with lastIndex = pos: the first heading with a non-empty title
\* that some matching anchor follows, and (lazily) the first such anchor
reExec(html, pos) ==
    LET H == {i \in pos..Len(html) :
                 /\ html[i].k = "h3"
                 /\ html[i].title # <<>>
                 /\ \E j \in (i + 1)..Len(html) : AnchorMatches(html[j])}
    IN  IF H = {} THEN NoMatch
        ELSE LET i == Min(H)
                 j == Min({j \in (i + 1)..Len(html) : AnchorMatches(html[j])})
             IN  [found |-> TRUE, title |-> html[i].title,
                  id |-> IdRun(html[j].id), next |-> j + 1]

\* hrefRe.exec(html) with lastIndex = pos
hrefExec(html, pos) ==
    LET J == {j \in pos..Len(html) :
                 html[j].k \in {"a", "href"} /\ HrefValueMatches(html[j].id)}
    IN  IF J = {} THEN NoMatch
        ELSE [found |-> TRUE, title |-> <<>>,
              id |-> IdRun(html[Min(J)].id), next |-> Min(J) + 1]

\* while ((m = re.exec(html)) && out.length < limit)
LoopEnds(m, out, limit) == ~m.found \/ Len(out) >= limit

RECURSIVE PrimaryLoop(_, _, _, _, _)
PrimaryLoop(html, pos, out, seen, limit) ==
    LET m == reExec(html, pos) IN
    IF LoopEnds(m, out, limit) THEN [out |-> out, seen |-> seen]
    ELSE IF SkipId(m.id, seen) THEN PrimaryLoop(html, m.next, out, seen, limit)
    ELSE PrimaryLoop(html, m.next,
                     Append(out, Item(m.id, OrElse(decodeEntities(m.title), m.id),
                                      CanonThumb(m.id))),
                     seen \cup {m.id}, limit)

RECURSIVE HrefLoop(_, _, _, _, _)
HrefLoop(html, pos, out, seen, limit) ==
    LET hm == hrefExec(html, pos) IN
    IF LoopEnds(hm, out, limit) THEN out
    ELSE IF SkipId(hm.id, seen) THEN HrefLoop(html, hm.next, out, seen, limit)
    ELSE HrefLoop(html, hm.next, Append(out, Item(hm.id, hm.id, CanonThumb(hm.id))),
                  seen \cup {hm.id}, limit)

\* if (!out.length)
NothingMatchedMut(out) == TRUE
NothingMatched(out) == Len(out) = 0

pickFromHtml(html, limit) ==
    LET p == PrimaryLoop(html, 1, <<>>, {}, limit) IN
    IF NothingMatched(p.out) THEN HrefLoop(html, 1, p.out, p.seen, limit) ELSE p.out


(***************************************************************************)
(* Inputs of the extraction tiers                                          *)
(*                                                                         *)
(* An input is an arbitrary prefix of at most MaxAffix entries, a run of   *)
(* at most MaxRun entries with distinct ids, and at most one more entry.   *)
(* The prefix is drawn from entries that repeat ids of the run, carry no   *)
(* id, or have a shape the tier does not know.                             *)
(***************************************************************************)
Alpha == <<"a","b","c","d","e","f","g","h","i","j","k","l","m",
           "n","o","p","q","r","s","t","u","v","w","x","y","z">>

Vid(n) == <<"v","i","d","_","0", Alpha[n]>>

Affixes(A) == UNION {[1..n -> A] : n \in 0..MaxAffix}

\* nothing, or one more entry
Tails(T) == {<<>>} \cup {<<a>> : a \in T}

RunShapes == {[start |-> s, len |-> n] : s \in 1..2, n \in 0..MaxRun}

Entry(k, id, title, runs, thumbs) ==
    [k |-> k, id |-> id, title |-> title, runs |-> runs, thumbs |-> thumbs]

Src(url) == [obj |-> TRUE, url |-> url]

StructAlphabet ==
    { Entry("lockup", Vid(1), <<"T","1">>, <<>>, <<Src(<<"lo.jpg">>), Src(<<"hi.jpg">>)>>),
      Entry("lockup", <<>>, <<"n","o","i","d">>, <<>>, <<>>),
      Entry("lockup", <<"a","b">>, <<>>, <<>>, <<>>),
      Entry("compact", Vid(2), <<>>, << <<"H","i"," ">>, <<"y","o","u">> >>, <<Src(<<>>)>>),
      Entry("autoplay", Vid(3), <<>>, <<>>, <<[obj |-> FALSE, url |-> <<>>]>>),
      Entry("prim", <<>>, <<>>, <<>>, <<>>),
      Entry("other", <<>>, <<>>, <<>>, <<>>),
      Entry("null", <<>>, <<>>, <<>>, <<>>) }

\* a last entry that repeats the first id of the run, and one that is null
StructTails ==
    { Entry("compact", Vid(1), <<>>, <<>>, <<>>),
      Entry("null", <<>>, <<>>, <<>>, <<>>) }

StructRunEntry(n) ==
    IF n % 2 = 1 THEN Entry("lockup", Vid(n), <<>>, <<>>, <<>>)
    ELSE Entry("compact", Vid(n), <<>>, <<>>, <<>>)

StructInputs ==
    {[shape |-> "absent", list |-> <<>>], [shape |-> "object", list |-> <<>>]}
    \cup {[shape |-> "array",
           list |-> p \o [i \in 1..r.len |-> StructRunEntry(r.start + i - 1)] \o t] :
            p \in Affixes(StructAlphabet), r \in RunShapes, t \in Tails(StructTails)}

WatchHref(id) == <<"/","w","a","t","c","h","?","v","=">> \o id \o <<"&","t","=","1","s">>

Card(href, title, img) == [href |-> href, title |-> title, img |-> img]

DomAlphabet ==
    { Card(WatchHref(Vid(1)), <<" ","T","1"," ">>, <<"c","1",".","j","p","g">>),
      Card(<<>>, <<"n","o","l","i","n","k">>, <<>>),
      Card(<<"/","w","a","t","c","h","?","v","=","a","b">>, <<>>, <<>>),
      Card(<<"/","r","?","v","=","x","&","v","=">> \o Vid(2), <<" "," ">>, <<>>),
      Card(WatchHref(Vid(3)), <<>>, <<>>) }

\* a last card that repeats the first id of the run, and one without a link
DomTails ==
    { Card(WatchHref(Vid(1)), <<>>, <<>>),
      Card(<<>>, <<>>, <<>>) }

DomInputs ==
    {p \o [i \in 1..r.len |-> Card(WatchHref(Vid(r.start + i - 1)), <<>>, <<>>)] \o t :
        p \in Affixes(DomAlphabet), r \in RunShapes, t \in Tails(DomTails)}

Tok(k, title, id) == [k |-> k, title |-> title, id |-> id]

HtmlAlphabet ==
    { Tok("h3", <<"A","&","a","m","p",";","q","u","o","t",";","B">>, <<>>),
      Tok("h3", <<>>, <<>>),
      Tok("a", <<>>, Vid(1) \o <<"&","t","=","1">>),
      Tok("a", <<>>, <<"a","b","c">>),
      Tok("a", <<>>, Vid(2) \o <<"'">>),
      Tok("href", <<>>, Vid(3)),
      Tok("text", <<>>, <<>>) }

\* a last link that repeats the first id of the run, and a heading no link follows
HtmlTails ==
    { Tok("a", <<>>, Vid(1)),
      Tok("h3", <<"T">>, <<>>) }

\* a run of heading+link pairs (style "pair") or of plain links (style "plain")
RECURSIVE HtmlRun(_, _, _)
HtmlRun(style, start, len) ==
    IF len = 0 THEN <<>>
    ELSE (IF style = "pair"
          THEN <<Tok("h3", <<"T">>, <<>>), Tok("a", <<>>, Vid(start))>>
          ELSE <<Tok("a", <<>>, Vid(start))>>)
         \o HtmlRun(style, start + 1, len - 1)

HtmlInputs ==
    {p \o HtmlRun(st, r.start, r.len) \o t :
        p \in Affixes(HtmlAlphabet), st \in {"pair", "plain"},
        r \in RunShapes, t \in Tails(HtmlTails)}

NoData == [shape |-> "absent", list |-> <<>>]

ExtractInputs ==
    {[kind |-> "struct", data |-> d, cards |-> <<>>, html |-> <<>>] : d \in StructInputs}
    \cup {[kind |-> "dom", data |-> NoData, cards |-> c, html |-> <<>>] : c \in DomInputs}
    \cup {[kind |-> "html", data |-> NoData, cards |-> <<>>, html |-> h] : h \in HtmlInputs}

(***************************************************************************)
(* State                                                                   *)
(***************************************************************************)
VARIABLES
    snap,           \* extraction: the input snapshot
    ran,            \* extraction: has the tier been applied
    res,            \* extraction: what the tier returned
    program,        \* which server the process runs: "recs" (src/api/recs.js,
                    \* shared context and cache), "server" (src/server.js) or
                    \* "fetch" (the raw-fetch handler of src/api/recs.js)
    browser,        \* let browser: 0 is undefined, else the engine's handle
    cachedContext,  \* let cachedContext: 0 is null, else the context's handle
    recsCache,      \* the Map videoId -> {items, ts}, as a function on its keys
    now,            \* Date.now()
    ticks,          \* how many times the clock has advanced
    engines,        \* the engine instances chromium.launch() has created
    contexts,       \* the contexts created: handle h is contexts[h]
    req,            \* the requests: their position and their locals
    exited,         \* has process.exit(0) been called
    closers,        \* the signal handlers awaiting browser.close(): the engine
                    \* handle each called close() on, in the order of the signals
    closed          \* the engine handles whose close() has resolved

extractVars == <<snap, ran, res>>

signalVars == <<exited, closers, closed>>

serverVars == <<program, browser, cachedContext, recsCache, now, ticks,
                engines, contexts, req, exited, closers, closed>>

vars == <<snap, ran, res, program, browser, cachedContext, recsCache, now, ticks,
          engines, contexts, req, exited, closers, closed>>

Requests == 1..NumReq

NoSnapshot == [data |-> NoData, cards |-> <<>>]

NoEntry == [found |-> FALSE, items |-> <<>>, ts |-> 0]

\* a request that has not arrived yet
IdleRequest ==
    [pc |-> "idle",         \* where the handler is
     v |-> <<>>,            \* req.query.v
     videoId |-> <<>>,      \* const videoId
     cached |-> NoEntry,    \* const cached = recsCache.get(videoId)
     lookupAt |-> 0,        \* Date.now() at the cache check
     context |-> 0,         \* const context
     target |-> 0,          \* the handle the call in flight acts on
     page |-> "none",       \* const page: "none", "open" or "closed"
     nav |-> "none",        \* how page.goto ended: "ok", "error", "timeout"
     click |-> "none",      \* how acceptBtn.click ended: "ok", "timeout"
     wait |-> "none",       \* how waitForSelector ended: "ok", "timeout"
     snapshot |-> NoSnapshot, \* what the page holds after navigation
     evaluated |-> FALSE,   \* has the structured tier been evaluated
     structRes |-> Returned(<<>>), \* what it returned
     domRan |-> FALSE,      \* has the rendered-DOM tier been called
     items |-> <<>>,        \* let items
     fault |-> "",          \* the awaited call that rejected, if any
     fetches |-> <<>>,      \* raw-fetch handler: the urls fetched, in order
     upstream |-> <<>>,     \* raw-fetch handler: how each fetch ended
     html |-> <<>>,         \* raw-fetch handler: the body resp.text() resolves to
     resp |-> <<>>]         \* the responses sent, in order

ServerIdle ==
    /\ program = "recs"
    /\ browser = 0
    /\ cachedContext = 0
    /\ recsCache = <<>>
    /\ now = 0
    /\ ticks = 0
    /\ engines = 0
    /\ contexts = <<>>
    /\ req = [r \in Requests |-> IdleRequest]
    /\ exited = FALSE
    /\ closers = <<>>
    /\ closed = {}

(***************************************************************************)
(* Extraction as a specification: a tier applied to one input              *)
(***************************************************************************)
InitExtract ==
    /\ snap \in ExtractInputs
    /\ ran = FALSE
    /\ res = Returned(<<>>)
    /\ ServerIdle

\* recs.js, page.evaluate((max) => ..., MAX_ITEMS)
ExtractStructured ==
    /\ ~ran /\ snap.kind = "struct"
    /\ ran' = TRUE
    /\ res' = StructuredTier(snap.data, MAX_ITEMS)
    /\ UNCHANGED <<snap, serverVars>>

\* recs.js, page.$$eval(..., (cards, max) => ..., MAX_ITEMS)
ExtractDom ==
    /\ ~ran /\ snap.kind = "dom"
    /\ ran' = TRUE
    /\ res' = Returned(DomTier(snap.cards, MAX_ITEMS))
    /\ UNCHANGED <<snap, serverVars>>

\* recs.js, pickFromHtml(html, 12)
ExtractHtml ==
    /\ ~ran /\ snap.kind = "html"
    /\ ran' = TRUE
    /\ res' = Returned(pickFromHtml(snap.html, MAX_ITEMS))
    /\ UNCHANGED <<snap, serverVars>>

NextExtract == ExtractStructured \/ ExtractDom \/ ExtractHtml

SpecExtract == InitExtract /\ [][NextExtract]_vars


(***************************************************************************)
(* The servers: inputs                                                     *)
(***************************************************************************)
\* the values of req.query.v the requests carry
RawVs ==
    { <<>>,
      <<" ", " ">>,
      <<"a", "b">>,
      <<"a", "b", "c", "d", "e", "!", "g">>,
      <<" ">> \o Vid(1) \o <<" ">>,
      Vid(2) }

\* what a page can hold once navigation has resolved
PageSnapshots ==
    { [data |-> [shape |-> "array",
                 list |-> <<Entry("lockup", Vid(1), <<"T","1">>, <<>>, <<Src(<<"hi.jpg">>)>>),
                            Entry("compact", Vid(2), <<>>, << <<"H","i">> >>, <<>>),
                            Entry("lockup", Vid(1), <<>>, <<>>, <<>>)>>],
       cards |-> <<Card(WatchHref(Vid(3)), <<>>, <<>>)>>],
      [data |-> NoData,
       cards |-> <<Card(WatchHref(Vid(3)), <<" ","T","3">>, <<>>),
                   Card(<<>>, <<>>, <<>>),
                   Card(WatchHref(Vid(3)), <<>>, <<>>)>>],
      [data |-> [shape |-> "array",
                 list |-> <<Entry("other", <<>>, <<>>, <<>>, <<>>),
                            Entry("null", <<>>, <<>>, <<>>, <<>>)>>],
       cards |-> <<Card(WatchHref(Vid(3)), <<>>, <<>>)>>],
      [data |-> [shape |-> "array",
                 list |-> <<Entry("prim", <<>>, <<>>, <<>>, <<>>)>>],
       cards |-> <<>>] }

\* the clock advances by the TTL or by one millisecond less
TickSteps == {CACHE_TTL_MS - 1, CACHE_TTL_MS}

(***************************************************************************)
(* The servers: what both handlers share                                   *)
(***************************************************************************)
Response(status, items, error, cached) ==
    [status |-> status, items |-> items, error |-> error, cached |-> cached]

\* return res.status(..).json(..)
Respond(rec, response) ==
    [rec EXCEPT !.pc = "done", !.resp = Append(@, response)]

\* catch (e) { return res.status(500).json({ items: [], error: 'scrape_failed' }) }
CatchResponseMut == Response(200, <<>>, "", FALSE)
CatchResponse == Response(500, <<>>, "scrape_failed", FALSE)

Catch(rec, fault) == Respond([rec EXCEPT !.fault = fault], CatchResponse)

\* /^[a-zA-Z0-9_-]{6,}$/.test(videoId) in the handlers
ValidIdMut(videoId) == Len(videoId) >= 6
ValidId(videoId) == TestVideoId(videoId)

\* requests are numbered in the order they arrive
Arrives(r) ==
    /\ req[r].pc = "idle"
    /\ r > 1 => req[r - 1].pc # "idle"

(***************************************************************************)
(* src/api/recs.js: the server with the shared context and the cache       *)
(***************************************************************************)
CacheGet(cache, videoId) ==
    IF videoId \in DOMAIN cache THEN cache[videoId] ELSE NoEntry

\* recsCache.set(videoId, { items, ts: Date.now() })
CacheSetMut(cache, videoId, items, t) ==
    [k \in {videoId} |-> [found |-> TRUE, items |-> items, ts |-> t]]
CacheSet(cache, videoId, items, t) ==
    [k \in DOMAIN cache \cup {videoId} |->
        IF k = videoId THEN [found |-> TRUE, items |-> items, ts |-> t] ELSE cache[k]]

\* cached && Date.now() - cached.ts < CACHE_TTL_MS
CacheHitNonEmptyMut(cached, t) ==
    cached.found /\ cached.items # <<>> /\ t - cached.ts < CACHE_TTL_MS
CacheHitMut(cached, t) == cached.found /\ t - cached.ts <= CACHE_TTL_MS
CacheHit(cached, t) == cached.found /\ t - cached.ts < CACHE_TTL_MS

\* getContext from `if (!cachedContext)` on, up to its next await or its return
AfterBrowser(rec, b, cc) ==
    IF cc = 0 THEN [rec EXCEPT !.pc = "newContext", !.target = b]
    ELSE [rec EXCEPT !.pc = "newPage", !.context = cc]

\* getContext from its first line, up to its next await or its return;
\* on return the handler calls context.newPage()
GetContextEntryMut(rec, b, cc) == AfterBrowser(rec, b, cc)
GetContextEntry(rec, b, cc) ==
    IF b = 0 THEN [rec EXCEPT !.pc = "launch"] ELSE AfterBrowser(rec, b, cc)

\* if (!items || items.length === 0)
NeedsFallbackMut(items) == TRUE
NeedsFallback(items) == Len(items) = 0

\* the handler from its first line to its first await
Receive(r, v) ==
    /\ program = "recs"
    /\ Arrives(r)
    /\ LET videoId == Trim(v)
           rec0    == [req[r] EXCEPT !.v = v, !.videoId = videoId]
           cached  == CacheGet(recsCache, videoId)
           rec1    == [rec0 EXCEPT !.cached = cached, !.lookupAt = now]
       IN  req' = [req EXCEPT ![r] =
                IF videoId = <<>>
                THEN Respond(rec0, Response(400, <<>>, "missing_video_id", FALSE))
                ELSE IF ~ValidId(videoId)
                THEN Respond(rec0, Response(400, <<>>, "bad_video_id", FALSE))
                ELSE IF CacheHit(cached, now)
                THEN Respond(rec1, Response(200, cached.items, "", TRUE))
                ELSE GetContextEntry(rec1, browser, cachedContext)]
    /\ UNCHANGED <<extractVars, signalVars, program, browser, cachedContext, recsCache, now,
                   ticks, engines, contexts>>

\* browser = await chromium.launch(...)
LaunchDone(r, ok) ==
    /\ program = "recs"
    /\ req[r].pc = "launch"
    /\ IF ok
       THEN /\ engines' = engines + 1
            /\ browser' = engines + 1
            /\ req' = [req EXCEPT ![r] = AfterBrowser(@, engines + 1, cachedContext)]
       ELSE /\ req' = [req EXCEPT ![r] = Catch(@, "launch")]
            /\ UNCHANGED <<engines, browser>>
    /\ UNCHANGED <<extractVars, signalVars, program, cachedContext, recsCache, now, ticks, contexts>>

\* cachedContext = await browser.newContext(...); then cachedContext.addCookies(...)
NewContextDone(r, ok) ==
    /\ program = "recs"
    /\ req[r].pc = "newContext"
    /\ IF ok
       THEN /\ contexts' = Append(contexts,
                              [engine |-> req[r].target, cookies |-> FALSE, open |-> TRUE])
            /\ cachedContext' = Len(contexts) + 1
            /\ req' = [req EXCEPT ![r] =
                          [@ EXCEPT !.pc = "addCookies", !.target = Len(contexts) + 1]]
       ELSE /\ req' = [req EXCEPT ![r] = Catch(@, "newContext")]
            /\ UNCHANGED <<contexts, cachedContext>>
    /\ UNCHANGED <<extractVars, signalVars, program, browser, recsCache, now, ticks, engines>>

\* await cachedContext.addCookies(...); return cachedContext; then context.newPage()
AddCookiesDone(r, ok) ==
    /\ program = "recs"
    /\ req[r].pc = "addCookies"
    /\ IF ok
       THEN /\ contexts' = [contexts EXCEPT ![req[r].target].cookies = TRUE]
            /\ req' = [req EXCEPT ![r] =
                          [@ EXCEPT !.pc = "newPage", !.context = cachedContext]]
       ELSE /\ req' = [req EXCEPT ![r] = Catch(@, "addCookies")]
            /\ UNCHANGED contexts
    /\ UNCHANGED <<extractVars, signalVars, program, browser, cachedContext, recsCache, now, ticks,
                   engines>>

\* const page = await context.newPage(); then page.goto(url, ...)
NewPageDone(r, ok) ==
    /\ program = "recs"
    /\ req[r].pc = "newPage"
    /\ req' = [req EXCEPT ![r] =
                  IF ok THEN [@ EXCEPT !.pc = "goto", !.page = "open"]
                  ELSE Catch(@, "newPage")]
    /\ UNCHANGED <<extractVars, signalVars, program, browser, cachedContext, recsCache, now, ticks,
                   engines, contexts>>

\* await page.goto(url, { waitUntil: 'domcontentloaded', timeout: NAV_TIMEOUT })
\* resolves; then page.evaluate(...)
GotoResolved(r, s) ==
    /\ program = "recs"
    /\ req[r].pc = "goto"
    /\ req' = [req EXCEPT ![r] =
                  [@ EXCEPT !.pc = "evaluate", !.nav = "ok", !.snapshot = s]]
    /\ UNCHANGED <<extractVars, signalVars, program, browser, cachedContext, recsCache, now, ticks,
                   engines, contexts>>

\* await page.goto(...) rejects: a navigation error, or the deadline has passed
GotoRejected(r, how) ==
    /\ program = "recs"
    /\ req[r].pc = "goto"
    /\ req' = [req EXCEPT ![r] = Catch([@ EXCEPT !.nav = how], "goto")]
    /\ UNCHANGED <<extractVars, signalVars, program, browser, cachedContext, recsCache, now, ticks,
                   engines, contexts>>

\* let items = await page.evaluate(...); if empty, page.$$eval(...); else page.close()
EvaluateDone(r) ==
    /\ program = "recs"
    /\ req[r].pc = "evaluate"
    /\ LET sr  == StructuredTier(req[r].snapshot.data, MAX_ITEMS)
           rec == [req[r] EXCEPT !.evaluated = TRUE, !.structRes = sr]
       IN  req' = [req EXCEPT ![r] =
                IF sr.threw THEN Catch(rec, "evaluate")
                ELSE IF NeedsFallback(sr.items)
                THEN [rec EXCEPT !.pc = "domEval", !.items = sr.items, !.domRan = TRUE]
                ELSE [rec EXCEPT !.pc = "close", !.items = sr.items]]
    /\ UNCHANGED <<extractVars, signalVars, program, browser, cachedContext, recsCache, now, ticks,
                   engines, contexts>>

\* items = await page.$$eval(...); then page.close()
DomEvalDone(r, ok) ==
    /\ program = "recs"
    /\ req[r].pc = "domEval"
    /\ req' = [req EXCEPT ![r] =
                  IF ok
                  THEN [@ EXCEPT !.pc = "close",
                                 !.items = DomTier(req[r].snapshot.cards, MAX_ITEMS)]
                  ELSE Catch(@, "domEval")]
    /\ UNCHANGED <<extractVars, signalVars, program, browser, cachedContext, recsCache, now, ticks,
                   engines, contexts>>

\* await page.close(); recsCache.set(...); return res.json({ items })
\* (page.close() resolves also when the page or its engine is already gone)
CloseDone(r) ==
    /\ program = "recs"
    /\ req[r].pc = "close"
    /\ recsCache' = CacheSet(recsCache, req[r].videoId, req[r].items, now)
    /\ req' = [req EXCEPT ![r] =
                  Respond([@ EXCEPT !.page = "closed"],
                          Response(200, req[r].items, "", FALSE))]
    /\ UNCHANGED <<extractVars, signalVars, program, browser, cachedContext, now, ticks,
                   engines, contexts>>

\* time passes
Tick(d) ==
    /\ ticks < MaxTicks
    /\ ticks' = ticks + 1
    /\ now' = now + d
    /\ UNCHANGED <<extractVars, signalVars, program, browser, cachedContext, recsCache,
                   engines, contexts, req>>

(***************************************************************************)
(* src/server.js: the server that opens one context per request            *)
(***************************************************************************)
\* acceptBtn.click({ timeout: 4000 }).catch(() => {}) and
\* page.waitForSelector(..., { timeout: SELECTOR_TIMEOUT }).catch(() => {}):
\* does the handler go on after the call ended this way
SwallowedMut(how) == how = "ok"
Swallowed(how) == how \in {"ok", "timeout"}

\* the handler from its first line to its first await
S_Receive(r, v) ==
    /\ program = "server"
    /\ Arrives(r)
    /\ LET videoId == Trim(v)
           rec0    == [req[r] EXCEPT !.v = v, !.videoId = videoId]
       IN  req' = [req EXCEPT ![r] =
                IF videoId = <<>>
                THEN Respond(rec0, Response(400, <<>>, "missing_video_id", FALSE))
                ELSE IF ~ValidId(videoId)
                THEN Respond(rec0, Response(400, <<>>, "bad_video_id", FALSE))
                ELSE IF browser = 0
                THEN [rec0 EXCEPT !.pc = "launch"]
                ELSE [rec0 EXCEPT !.pc = "newContext", !.target = browser]]
    /\ UNCHANGED <<extractVars, signalVars, program, browser, cachedContext, recsCache, now,
                   ticks, engines, contexts>>

\* browser = await chromium.launch(...); then browser.newContext(...)
S_LaunchDone(r, ok) ==
    /\ program = "server"
    /\ req[r].pc = "launch"
    /\ IF ok
       THEN /\ engines' = engines + 1
            /\ browser' = engines + 1
            /\ req' = [req EXCEPT ![r] =
                          [@ EXCEPT !.pc = "newContext", !.target = engines + 1]]
       ELSE /\ req' = [req EXCEPT ![r] = Catch(@, "launch")]
            /\ UNCHANGED <<engines, browser>>
    /\ UNCHANGED <<extractVars, signalVars, program, cachedContext, recsCache, now, ticks, contexts>>

\* const context = await browser.newContext(...); then context.newPage()
S_NewContextDone(r, ok) ==
    /\ program = "server"
    /\ req[r].pc = "newContext"
    /\ IF ok
       THEN /\ contexts' = Append(contexts,
                              [engine |-> req[r].target, cookies |-> FALSE, open |-> TRUE])
            /\ req' = [req EXCEPT ![r] =
                          [@ EXCEPT !.pc = "newPage", !.context = Len(contexts) + 1]]
       ELSE /\ req' = [req EXCEPT ![r] = Catch(@, "newContext")]
            /\ UNCHANGED contexts
    /\ UNCHANGED <<extractVars, signalVars, program, browser, cachedContext, recsCache, now, ticks,
                   engines>>

\* const page = await context.newPage(); then page.goto(url, ...)
S_NewPageDone(r, ok) ==
    /\ program = "server"
    /\ req[r].pc = "newPage"
    /\ req' = [req EXCEPT ![r] =
                  IF ok THEN [@ EXCEPT !.pc = "goto", !.page = "open"]
                  ELSE Catch(@, "newPage")]
    /\ UNCHANGED <<extractVars, signalVars, program, browser, cachedContext, recsCache, now, ticks,
                   engines, contexts>>

\* await page.goto(url, { waitUntil: 'networkidle', timeout: NAV_TIMEOUT }) resolves;
\* then acceptBtn.click({ timeout: 4000 })
S_GotoResolved(r, s) ==
    /\ program = "server"
    /\ req[r].pc = "goto"
    /\ req' = [req EXCEPT ![r] =
                  [@ EXCEPT !.pc = "click", !.nav = "ok", !.snapshot = s]]
    /\ UNCHANGED <<extractVars, signalVars, program, browser, cachedContext, recsCache, now, ticks,
                   engines, contexts>>

\* await page.goto(...) rejects: a navigation error, or the deadline has passed
S_GotoRejected(r, how) ==
    /\ program = "server"
    /\ req[r].pc = "goto"
    /\ req' = [req EXCEPT ![r] = Catch([@ EXCEPT !.nav = how], "goto")]
    /\ UNCHANGED <<extractVars, signalVars, program, browser, cachedContext, recsCache, now, ticks,
                   engines, contexts>>

\* await acceptBtn.click({ timeout: 4000 }).catch(() => {}); then page.waitForSelector
S_ClickDone(r, how) ==
    /\ program = "server"
    /\ req[r].pc = "click"
    /\ req' = [req EXCEPT ![r] =
                  IF Swallowed(how) THEN [@ EXCEPT !.pc = "waitSel", !.click = how]
                  ELSE Catch([@ EXCEPT !.click = how], "click")]
    /\ UNCHANGED <<extractVars, signalVars, program, browser, cachedContext, recsCache, now, ticks,
                   engines, contexts>>

\* await page.waitForSelector(..., { timeout: SELECTOR_TIMEOUT }).catch(() => {});
\* it resolves only when a card is there; then page.$$eval(...)
S_WaitDone(r, how) ==
    /\ program = "server"
    /\ req[r].pc = "waitSel"
    /\ how = "ok" => req[r].snapshot.cards # <<>>
    /\ req' = [req EXCEPT ![r] =
                  IF Swallowed(how)
                  THEN [@ EXCEPT !.pc = "domEval", !.wait = how, !.domRan = TRUE]
                  ELSE Catch([@ EXCEPT !.wait = how], "waitSel")]
    /\ UNCHANGED <<extractVars, signalVars, program, browser, cachedContext, recsCache, now, ticks,
                   engines, contexts>>

\* const items = await page.$$eval('ytd-compact-video-renderer', ...); then page.close()
S_DomEvalDone(r, ok) ==
    /\ program = "server"
    /\ req[r].pc = "domEval"
    /\ req' = [req EXCEPT ![r] =
                  IF ok
                  THEN [@ EXCEPT !.pc = "close",
                                 !.items = DomTier(req[r].snapshot.cards, MAX_ITEMS)]
                  ELSE Catch(@, "domEval")]
    /\ UNCHANGED <<extractVars, signalVars, program, browser, cachedContext, recsCache, now, ticks,
                   engines, contexts>>

\* await page.close(); then context.close()
S_CloseDone(r) ==
    /\ program = "server"
    /\ req[r].pc = "close"
    /\ req' = [req EXCEPT ![r] = [@ EXCEPT !.pc = "ctxClose", !.page = "closed"]]
    /\ UNCHANGED <<extractVars, signalVars, program, browser, cachedContext, recsCache, now, ticks,
                   engines, contexts>>

\* await context.close(); return res.json({ items })
S_ContextCloseDone(r) ==
    /\ program = "server"
    /\ req[r].pc = "ctxClose"
    /\ contexts' = [contexts EXCEPT ![req[r].context].open = FALSE]
    /\ req' = [req EXCEPT ![r] = Respond(@, Response(200, req[r].items, "", FALSE))]
    /\ UNCHANGED <<extractVars, signalVars, program, browser, cachedContext, recsCache, now, ticks,
                   engines>>

(***************************************************************************)
(* Both servers: process.on('SIGINT' / 'SIGTERM')                          *)
(***************************************************************************)
\* the handler from its first line: with no browser it exits at once, else it
\* calls browser.close() and awaits it
Signal ==
    /\ ~exited
    /\ Len(closers) < MaxSignals
    /\ IF browser = 0
       THEN exited' = TRUE /\ UNCHANGED closers
       ELSE closers' = Append(closers, browser) /\ UNCHANGED exited
    /\ UNCHANGED <<extractVars, program, browser, cachedContext, recsCache, now, ticks,
                   engines, contexts, req, closed>>

\* await browser.close().catch(() => {}) settles, resolved or rejected;
\* process.exit(0)
BrowserCloseDone(k, ok) ==
    /\ ~exited
    /\ k \in DOMAIN closers
    /\ closed' = IF ok THEN closed \cup {closers[k]} ELSE closed
    /\ exited' = TRUE
    /\ UNCHANGED <<extractVars, program, browser, cachedContext, recsCache, now, ticks,
                   engines, contexts, req, closers>>

(***************************************************************************)
(* The servers as a specification                                          *)
(***************************************************************************)
Init ==
    /\ snap = [kind |-> "struct", data |-> NoData, cards |-> <<>>, html |-> <<>>]
    /\ ran = FALSE
    /\ res = Returned(<<>>)
    /\ program \in {"recs", "server"}
    /\ browser = 0
    /\ cachedContext = 0
    /\ recsCache = <<>>
    /\ now = 0
    /\ ticks = 0
    /\ engines = 0
    /\ contexts = <<>>
    /\ req = [r \in Requests |-> IdleRequest]
    /\ exited = FALSE
    /\ closers = <<>>
    /\ closed = {}

\* the steps of request r in src/api/recs.js
RecsStep(r) ==
    \/ \E v \in RawVs : Receive(r, v)
    \/ \E ok \in BOOLEAN : LaunchDone(r, ok)
    \/ \E ok \in BOOLEAN : NewContextDone(r, ok)
    \/ \E ok \in BOOLEAN : AddCookiesDone(r, ok)
    \/ \E ok \in BOOLEAN : NewPageDone(r, ok)
    \/ \E s \in PageSnapshots : GotoResolved(r, s)
    \/ \E how \in {"error", "timeout"} : GotoRejected(r, how)
    \/ EvaluateDone(r)
    \/ \E ok \in BOOLEAN : DomEvalDone(r, ok)
    \/ CloseDone(r)

\* the steps of request r in src/server.js
ServerStep(r) ==
    \/ \E v \in RawVs : S_Receive(r, v)
    \/ \E ok \in BOOLEAN : S_LaunchDone(r, ok)
    \/ \E ok \in BOOLEAN : S_NewContextDone(r, ok)
    \/ \E ok \in BOOLEAN : S_NewPageDone(r, ok)
    \/ \E s \in PageSnapshots : S_GotoResolved(r, s)
    \/ \E how \in {"error", "timeout"} : S_GotoRejected(r, how)
    \/ \E how \in {"ok", "timeout"} : S_ClickDone(r, how)
    \/ \E how \in {"ok", "timeout"} : S_WaitDone(r, how)
    \/ \E ok \in BOOLEAN : S_DomEvalDone(r, ok)
    \/ S_CloseDone(r)
    \/ S_ContextCloseDone(r)

Next ==
    \/ \E r \in Requests : RecsStep(r)
    \/ \E r \in Requests : ServerStep(r)
    \/ \E d \in TickSteps : program = "recs" /\ Tick(d)

Spec == Init /\ [][Next]_vars

\* the servers with shutdown signals: nothing runs once the process has exited
NextShutdown ==
    \/ ~exited /\ Next
    \/ Signal
    \/ \E k \in 1..MaxSignals : \E ok \in BOOLEAN : BrowserCloseDone(k, ok)

SpecShutdown == Init /\ [][NextShutdown]_vars

(***************************************************************************)
(* src/api/recs.js with more requests, all for one video: how the shared   *)
(* session comes to be and is used                                         *)
(***************************************************************************)
SessionRequests == 1..NumSessionReq

\* the page holds no structured data and one card
SessionSnapshot ==
    [data |-> NoData, cards |-> <<Card(WatchHref(Vid(3)), <<>>, <<>>)>>]

InitSession ==
    /\ snap = [kind |-> "struct", data |-> NoData, cards |-> <<>>, html |-> <<>>]
    /\ ran = FALSE
    /\ res = Returned(<<>>)
    /\ program = "recs"
    /\ browser = 0
    /\ cachedContext = 0
    /\ recsCache = <<>>
    /\ now = 0
    /\ ticks = 0
    /\ engines = 0
    /\ contexts = <<>>
    /\ req = [r \in SessionRequests |-> IdleRequest]
    /\ exited = FALSE
    /\ closers = <<>>
    /\ closed = {}

NextSession ==
    \E r \in SessionRequests :
        \/ Receive(r, Vid(2))
        \/ \E ok \in BOOLEAN : LaunchDone(r, ok)
        \/ \E ok \in BOOLEAN : NewContextDone(r, ok)
        \/ \E ok \in BOOLEAN : AddCookiesDone(r, ok)
        \/ \E ok \in BOOLEAN : NewPageDone(r, ok)
        \/ GotoResolved(r, SessionSnapshot)
        \/ GotoRejected(r, "error")
        \/ EvaluateDone(r)
        \/ \E ok \in BOOLEAN : DomEvalDone(r, ok)
        \/ CloseDone(r)

SpecSession == InitSession /\ [][NextSession]_vars

(***************************************************************************)
(* src/api/recs.js: the raw-fetch handler (module.exports) and             *)
(* fetchAndParse                                                           *)
(***************************************************************************)
\* the bodies an upstream answer can carry: no link at all, a heading with
\* its link, a link outside any heading
FetchDocs ==
    { <<Tok("text", <<>>, <<>>)>>,
      <<Tok("h3", <<"T">>, <<>>), Tok("a", <<>>, Vid(1))>>,
      <<Tok("text", <<>>, <<>>), Tok("href", <<>>, Vid(3))>> }

\* catch (e) { return res.status(500).json({ items: [], error: 'internal_error' }) }
InternalError(rec, fault) ==
    Respond([rec EXCEPT !.fault = fault], Response(500, <<>>, "internal_error", FALSE))

\* if (!parsed.items.length)
NeedsSecondFetchMut(items) == TRUE
NeedsSecondFetch(items) == Len(items) = 0

\* the handler once fetchAndParse has returned { items }: after the first
\* attempt it may fetch altUrl, after the second it answers
Parsed(rec, items) ==
    IF Len(rec.fetches) = 1 /\ NeedsSecondFetch(items)
    THEN [rec EXCEPT !.pc = "fetch", !.items = items, !.fetches = Append(@, "altUrl")]
    ELSE Respond([rec EXCEPT !.items = items], Response(200, items, "", FALSE))

\* the handler from its first line to its first await; a 204 has no body
F_Receive(r, method, v) ==
    /\ program = "fetch"
    /\ Arrives(r)
    /\ LET videoId == Trim(v)
           rec0    == [req[r] EXCEPT !.v = v, !.videoId = videoId]
       IN  req' = [req EXCEPT ![r] =
                IF method = "OPTIONS"
                THEN Respond(rec0, Response(204, <<>>, "", FALSE))
                ELSE IF videoId = <<>>
                THEN Respond(rec0, Response(400, <<>>, "missing_video_id", FALSE))
                ELSE IF ~ValidId(videoId)
                THEN Respond(rec0, Response(400, <<>>, "bad_video_id", FALSE))
                ELSE [rec0 EXCEPT !.pc = "fetch", !.fetches = <<"watchUrl">>]]
    /\ UNCHANGED <<extractVars, signalVars, program, browser, cachedContext, recsCache,
                   now, ticks, engines, contexts>>

\* const resp = await fetch(url, { headers }) settles: it rejects, or resolves
\* with a status that is not OK, or resolves OK and resp.text() is awaited
F_FetchDone(r, how) ==
    /\ program = "fetch"
    /\ req[r].pc = "fetch"
    /\ LET rec == [req[r] EXCEPT !.upstream = Append(@, how)]
       IN  req' = [req EXCEPT ![r] =
                CASE how = "rejected" -> InternalError(rec, "fetch")
                  [] how = "notOk"    -> Parsed(rec, <<>>)
                  [] OTHER            -> [rec EXCEPT !.pc = "text"]]
    /\ UNCHANGED <<extractVars, signalVars, program, browser, cachedContext, recsCache,
                   now, ticks, engines, contexts>>

\* const html = await resp.text() resolves; pickFromHtml(html, 12)
F_TextDone(r, html) ==
    /\ program = "fetch"
    /\ req[r].pc = "text"
    /\ req' = [req EXCEPT ![r] =
                  Parsed([@ EXCEPT !.html = html], pickFromHtml(html, 12))]
    /\ UNCHANGED <<extractVars, signalVars, program, browser, cachedContext, recsCache,
                   now, ticks, engines, contexts>>

\* await resp.text() rejects
F_TextRejected(r) ==
    /\ program = "fetch"
    /\ req[r].pc = "text"
    /\ req' = [req EXCEPT ![r] = InternalError(@, "text")]
    /\ UNCHANGED <<extractVars, signalVars, program, browser, cachedContext, recsCache,
                   now, ticks, engines, contexts>>

InitFetch ==
    /\ snap = [kind |-> "struct", data |-> NoData, cards |-> <<>>, html |-> <<>>]
    /\ ran = FALSE
    /\ res = Returned(<<>>)
    /\ program = "fetch"
    /\ browser = 0
    /\ cachedContext = 0
    /\ recsCache = <<>>
    /\ now = 0
    /\ ticks = 0
    /\ engines = 0
    /\ contexts = <<>>
    /\ req = [r \in Requests |-> IdleRequest]
    /\ exited = FALSE
    /\ closers = <<>>
    /\ closed = {}

NextFetch ==
    \E r \in Requests :
        \/ \E method \in {"GET", "OPTIONS"} : \E v \in RawVs : F_Receive(r, method, v)
        \/ \E how \in {"ok", "notOk", "rejected"} : F_FetchDone(r, how)
        \/ \E html \in FetchDocs : F_TextDone(r, html)
        \/ F_TextRejected(r)

SpecFetch == InitFetch /\ [][NextFetch]_vars

(***************************************************************************)
(* Claims                                                                  *)
(***************************************************************************)
Ids(items) == [i \in 1..Len(items) |-> items[i].id]

Take(s, n) == SubSeq(s, 1, IF Len(s) < n THEN Len(s) ELSE n)

\* the elements of s at their first occurrence, in the order of s
FirstOccurrences(s) ==
    LET keep == {i \in 1..Len(s) : \A j \in 1..(i - 1) : s[j] # s[i]}
    IN  [n \in 1..Cardinality(keep) |->
            s[CHOOSE i \in keep : Cardinality({j \in keep : j <= i}) = n]]

NonEmpty(t) == t # <<>>

RECURSIVE MatchIds(_, _, _)
MatchIds(html, pos, primary) ==
    LET m == IF primary THEN reExec(html, pos) ELSE hrefExec(html, pos) IN
    IF ~m.found THEN <<>> ELSE <<m.id>> \o MatchIds(html, m.next, primary)

\* the ids of the entries of a snapshot that its tier accepts, in source order
AcceptedIds(sn) ==
    CASE sn.kind = "struct" ->
            SelectSeq([i \in 1..Len(sn.data.list) |->
                          IF sn.data.list[i].k \in {"lockup", "compact", "autoplay"}
                          THEN sn.data.list[i].id ELSE <<>>], NonEmpty)
      [] sn.kind = "dom" ->
            SelectSeq([i \in 1..Len(sn.cards) |-> MatchV(sn.cards[i].href)], NonEmpty)
      [] OTHER ->
            IF MatchIds(sn.html, 1, TRUE) # <<>> THEN MatchIds(sn.html, 1, TRUE)
            ELSE MatchIds(sn.html, 1, FALSE)

Range(s) == {s[i] : i \in 1..Len(s)}

\* C4: whatever the snapshot and the tier (structured loop, rendered-DOM
\* fallback, pickFromHtml), the returned list has at most 12 items and no two
\* of its items have the same id.
C4_CappedAndDistinct ==
    ran => /\ Len(res.items) <= 12
           /\ \A i, j \in 1..Len(res.items) :
                 i # j => res.items[i].id # res.items[j].id

\* a tier has returned a full list from a snapshot that holds more than 12
\* distinct accepted ids and repeats one of them
C4_Witness ==
    /\ ran /\ ~res.threw
    /\ Len(res.items) = 12
    /\ Cardinality(Range(AcceptedIds(snap))) > 12
    /\ Len(AcceptedIds(snap)) > Cardinality(Range(AcceptedIds(snap)))

\* C5: the ids of the returned list are the accepted ids of the snapshot in
\* source order, each at its first occurrence only, cut after the first 12.
C5_FirstOccurrenceOrder ==
    (ran /\ ~res.threw) =>
        Ids(res.items) = Take(FirstOccurrences(AcceptedIds(snap)), 12)

\* the structured tier has returned from a snapshot in which an accepted id
\* comes back later, after other accepted ids, and which the cap cuts short
C5_Witness ==
    /\ ran /\ ~res.threw /\ snap.kind = "struct"
    /\ Len(res.items) = 12
    /\ \E i, j \in 1..Len(AcceptedIds(snap)) :
          /\ i + 1 < j
          /\ AcceptedIds(snap)[i] = AcceptedIds(snap)[j]
          /\ AcceptedIds(snap)[i] # AcceptedIds(snap)[i + 1]
    /\ Cardinality(Range(AcceptedIds(snap))) > 12

\* the kind of the entry a returned item was built from: the first entry of
\* the results list that carries the item's id in a known shape
SourceKind(list, id) ==
    list[Min({i \in 1..Len(list) :
                 list[i].k \in {"lockup", "compact", "autoplay"} /\ list[i].id = id})].k

\* C11: the strategies are applied in strict priority order and the pipeline
\* stops at the first that yields an item: when the structured tier returns at
\* least one item built from a modern (lockupViewModel) entry, no item of the
\* result is built from a legacy (compactVideoRenderer) entry.
C11_SingleStrategy ==
    (ran /\ ~res.threw /\ snap.kind = "struct") =>
        ((\E i \in 1..Len(res.items) :
              SourceKind(snap.data.list, res.items[i].id) = "lockup")
         => \A i \in 1..Len(res.items) :
              SourceKind(snap.data.list, res.items[i].id) = "lockup")


(***************************************************************************)
(* Claims about the servers                                                *)
(***************************************************************************)
Arrived(r) == req[r].pc # "idle"

Done(r) == req[r].pc = "done"

\* the request's v is a valid id once trimmed
HasValidId(r) == Trim(req[r].v) # <<>> /\ TestVideoId(Trim(req[r].v))

\* C1: however the first requests interleave, the engine is launched once and
\* one shared context is created.
C1_SingleSession ==
    /\ engines <= 1
    /\ program = "recs" => Len(contexts) <= 1

\* C2: the page of a request is closed before its response is sent, on every
\* exit path; when no request is in flight no page is open.
C2_PagesClosed ==
    /\ \A r \in Requests : req[r].resp # <<>> => req[r].page # "open"
    /\ (\A r \in Requests : req[r].pc \in {"idle", "done"})
          => \A r \in Requests : req[r].page # "open"

\* the entry the cache holds for a video id
EntryOf(videoId) ==
    IF videoId \in DOMAIN recsCache THEN recsCache[videoId] ELSE NoEntry

\* C3: a request that finds an entry for its id younger than the TTL (5
\* minutes) is answered with that entry's items and cached:true, having
\* acquired no page and navigated nowhere; a request that finds no entry, or
\* one whose age is at least the TTL, goes to the browsing session for a page
\* and is answered with items only after navigating upstream.
C3_CacheTtl ==
    /\ [][\A r \in Requests :
            (program = "recs" /\ req[r].pc = "idle" /\ req'[r].pc # "idle"
                /\ TestVideoId(Trim(req'[r].v)))
            => LET e == EntryOf(Trim(req'[r].v)) IN
               IF e.found /\ now - e.ts < 5 * 60 * 1000
               THEN /\ req'[r].pc = "done"
                    /\ req'[r].resp = <<Response(200, e.items, "", TRUE)>>
                    /\ req'[r].page = "none" /\ req'[r].nav = "none"
               ELSE /\ req'[r].pc \in {"launch", "newContext", "newPage"}
                    /\ req'[r].resp = <<>>]_vars
    /\ [](\A r \in Requests : \A i \in 1..Len(req[r].resp) :
            /\ req[r].resp[i].cached => req[r].page = "none" /\ req[r].nav = "none"
            /\ (program = "recs" /\ req[r].resp[i].status = 200 /\ ~req[r].resp[i].cached)
                  => req[r].page # "none" /\ req[r].nav = "ok")

\* a request has been answered from an entry one millisecond younger than the TTL
C3_Witness ==
    \E r \in Requests :
        /\ Done(r) /\ req[r].cached.found
        /\ req[r].lookupAt - req[r].cached.ts = 5 * 60 * 1000 - 1
        /\ req[r].resp = <<Response(200, req[r].cached.items, "", TRUE)>>
        /\ req[r].cached.items # <<>>

\* C6: a request whose v is empty once trimmed is answered 400
\* missing_video_id, one whose v is not empty but does not match
\* [A-Za-z0-9_-]{6,} is answered 400 bad_video_id; neither launches an engine,
\* creates a context or a page, navigates, or changes the cache.
C6_ValidationRejects ==
    /\ [](\A r \in Requests : (Arrived(r) /\ ~HasValidId(r)) =>
            /\ Done(r)
            /\ req[r].resp =
                  <<Response(400, <<>>,
                             IF Trim(req[r].v) = <<>> THEN "missing_video_id"
                             ELSE "bad_video_id", FALSE)>>
            /\ req[r].page = "none" /\ req[r].nav = "none"
            /\ req[r].context = 0 /\ req[r].target = 0)
    /\ [][\A r \in Requests :
            (req[r].pc = "idle" /\ req'[r].pc # "idle"
                /\ ~(Trim(req'[r].v) # <<>> /\ TestVideoId(Trim(req'[r].v))))
            => UNCHANGED <<browser, cachedContext, engines, contexts, recsCache>>]_vars

\* one request was refused for a v of blanks only, another for a v with a
\* character outside the class
C6_Witness ==
    \E r1, r2 \in Requests :
        /\ Done(r1) /\ req[r1].v = <<" ", " ">>
        /\ req[r1].resp[1].error = "missing_video_id"
        /\ Done(r2) /\ req[r2].v = <<"a", "b", "c", "d", "e", "!", "g">>
        /\ req[r2].resp[1].error = "bad_video_id"

\* C7: a request with a valid id gets exactly one response, with an items
\* array; a rejected launch, context, page, navigation or evaluation on the
\* cache-miss path is answered 500 with items [] and scrape_failed; a request
\* in flight can always take its next step and a request not yet received can
\* still be received.
C7_AlwaysAnswered ==
    \A r \in Requests :
        /\ (Arrived(r) /\ HasValidId(r)) =>
              /\ Len(req[r].resp) = (IF Done(r) THEN 1 ELSE 0)
              /\ req[r].fault # "" =>
                    /\ Done(r)
                    /\ req[r].resp = <<Response(500, <<>>, "scrape_failed", FALSE)>>
              /\ (Done(r) /\ req[r].fault = "") => req[r].resp[1].status = 200
              /\ ~Done(r) => ENABLED (RecsStep(r) \/ ServerStep(r))
        /\ (req[r].pc = "idle" /\ (r > 1 => Arrived(r - 1)))
              => ENABLED (RecsStep(r) \/ ServerStep(r))

\* the launch of the first request was rejected and answered scrape_failed,
\* and the second request has been answered with items
C7_Witness ==
    /\ NumReq >= 2
    /\ req[1].fault = "launch"
    /\ req[1].resp = <<Response(500, <<>>, "scrape_failed", FALSE)>>
    /\ Done(2) /\ req[2].fault = ""
    /\ req[2].resp[1].status = 200 /\ req[2].resp[1].items # <<>>
    /\ ~req[2].resp[1].cached

\* C8: when page navigation or a readiness wait exceeds its deadline, the
\* request is not answered with an error: extraction still runs, on whatever
\* snapshot there is, and the request is answered with an items list.
C8_TimeoutIsNoError ==
    \A r \in Requests :
        (Done(r) /\ (req[r].nav = "timeout"
                       \/ (req[r].wait = "timeout" /\ req[r].fault = "")))
        => /\ req[r].resp[1].status = 200
           /\ req[r].domRan

\* C8, amended: when a readiness wait of src/server.js (the consent click, the
\* selector wait) exceeds its deadline, that is no fault of the request: the
\* rendered-DOM tier still runs on what the page holds and, unless a later call
\* rejects, the request is answered 200 with the items it yields (none if no
\* card is there).  When page navigation exceeds its deadline, in either
\* server, the request is answered 500 scrape_failed with items [] and no tier
\* runs.
C8_WaitTimeoutIsNoError ==
    \A r \in Requests :
        /\ req[r].click = "timeout" => req[r].fault # "click"
        /\ req[r].wait = "timeout" =>
              /\ req[r].fault # "waitSel"
              /\ req[r].domRan
              /\ (Done(r) /\ req[r].fault = "") =>
                    req[r].resp = <<Response(200, req[r].items, "", FALSE)>>
              /\ (Done(r) /\ req[r].snapshot.cards = <<>>) =>
                    req[r].resp[1].items = <<>>
        /\ req[r].nav = "timeout" =>
              /\ Done(r)
              /\ req[r].resp = <<Response(500, <<>>, "scrape_failed", FALSE)>>
              /\ ~req[r].evaluated /\ ~req[r].domRan

\* in src/server.js one request whose click and selector wait both ran out
\* has been answered 200 with an item, and one whose navigation ran out has
\* been answered scrape_failed
C8_Witness ==
    \E r1, r2 \in Requests :
        /\ program = "server"
        /\ Done(r1) /\ req[r1].click = "timeout" /\ req[r1].wait = "timeout"
        /\ req[r1].resp[1].status = 200 /\ req[r1].resp[1].items # <<>>
        /\ Done(r2) /\ req[r2].nav = "timeout"
        /\ req[r2].resp[1].error = "scrape_failed"

\* C9: a structured tier that throws or meets a malformed shape counts as
\* zero items and the rendered-DOM tier runs next; the fault of a tier never
\* leaves extraction.
C9_TierFaultDegrades ==
    \A r \in Requests :
        (req[r].evaluated /\ req[r].structRes.threw)
        => /\ req[r].fault # "evaluate"
           /\ req[r].domRan

\* C10: in src/api/recs.js the rendered-DOM tier is called if and only if the
\* structured tier returned zero items; when the structured tier returns at
\* least one item, the response and the entry put in the cache hold exactly
\* the structured tier's items.
C10_FallbackOnlyWhenEmpty ==
    /\ [](program = "recs" => \A r \in Requests :
            /\ req[r].domRan <=>
                  (req[r].evaluated /\ ~req[r].structRes.threw
                      /\ Len(req[r].structRes.items) = 0)
            /\ (req[r].evaluated /\ Len(req[r].structRes.items) > 0) =>
                  /\ req[r].fault = ""
                  /\ Done(r) =>
                        req[r].resp = <<Response(200, req[r].structRes.items, "", FALSE)>>)
    /\ [][program = "recs" => \A r \in Requests :
            (req[r].pc # "done" /\ req'[r].pc = "done"
                /\ req[r].evaluated /\ Len(req[r].structRes.items) > 0)
            => /\ req[r].videoId \in DOMAIN recsCache'
               /\ recsCache'[req[r].videoId].items = req[r].structRes.items
               /\ recsCache'[req[r].videoId].ts = now]_vars

\* one request was answered with the items of the structured tier, which are
\* in the cache, without the rendered-DOM tier; another got its items from the
\* rendered-DOM tier after the structured tier returned none
C10_Witness ==
    \E r1, r2 \in Requests :
        /\ program = "recs"
        /\ Done(r1) /\ req[r1].evaluated /\ ~req[r1].domRan
        /\ Len(req[r1].structRes.items) = 2
        /\ req[r1].resp[1].items = req[r1].structRes.items
        /\ EntryOf(req[r1].videoId).items = req[r1].structRes.items
        /\ Done(r2) /\ req[r2].domRan /\ req[r2].structRes.items = <<>>
        /\ req[r2].resp[1].items # <<>>

\* C12: when the process exits on a signal, browser.close() has been called
\* on every engine that was launched and no launch is left in flight; a
\* signal with no engine requested exits at once, a second signal is handled
\* like the first, and a handler awaiting close() can always go on to exit,
\* whether close() resolves or rejects.
C12_ShutdownClosesEngine ==
    /\ exited =>
          /\ \A e \in 1..engines : e \in Range(closers)
          /\ \A r \in Requests : req[r].pc # "launch"
    /\ (~exited /\ closers # <<>>) =>
          /\ ENABLED BrowserCloseDone(1, TRUE)
          /\ ENABLED BrowserCloseDone(1, FALSE)
    /\ (~exited /\ Len(closers) < MaxSignals) => ENABLED Signal

\* C13: a request received once browser and cachedContext are both set, and
\* not answered from the cache, goes straight to newPage() on the shared
\* context, which belongs to the engine held in browser, and launches no
\* engine and creates no context; in src/api/recs.js no request closes a
\* context or an engine.
C13_SessionReused ==
    /\ [][\A r \in DOMAIN req :
            (/\ program = "recs" /\ req[r].pc = "idle" /\ req'[r].pc # "idle"
             /\ browser # 0 /\ cachedContext # 0
             /\ TestVideoId(Trim(req'[r].v))
             /\ ~(req'[r].pc = "done" /\ req'[r].resp[1].cached))
            => /\ req'[r].pc = "newPage"
               /\ req'[r].context = cachedContext
               /\ contexts[cachedContext].engine = browser
               /\ UNCHANGED <<browser, cachedContext, engines, contexts>>]_vars
    /\ [](program = "recs" =>
            /\ \A h \in DOMAIN contexts : contexts[h].open
            /\ closed = {})

\* C14: every item a tier returns has an id that matches [A-Za-z0-9_-]{6,},
\* a title that is not empty and a thumbnail URL that is not empty.
C14_ItemsWellFormed ==
    (ran /\ ~res.threw) =>
        \A i \in 1..Len(res.items) :
            /\ TestVideoId(res.items[i].id)
            /\ res.items[i].title # <<>>
            /\ res.items[i].thumb # <<>>

\* C15: in pickFromHtml the raw-link scan runs if and only if the heading+link
\* pattern produced no item: then the result is what the raw-link scan
\* yields, each item with its id as title and the canonical thumbnail of its
\* id; when the heading+link pattern produced an item, the result holds the
\* ids that pattern matched and no id that only the raw-link scan finds.
C15_RawLinkOnlyWhenPrimaryEmpty ==
    (ran /\ snap.kind = "html") =>
        IF MatchIds(snap.html, 1, TRUE) = <<>>
        THEN /\ Ids(res.items) = Take(FirstOccurrences(MatchIds(snap.html, 1, FALSE)), 12)
             /\ \A i \in 1..Len(res.items) :
                   /\ res.items[i].title = res.items[i].id
                   /\ res.items[i].thumb = CanonThumb(res.items[i].id)
        ELSE /\ res.items # <<>>
             /\ \A i \in 1..Len(res.items) :
                   res.items[i].id \in Range(MatchIds(snap.html, 1, TRUE))

\* pickFromHtml has returned the raw links of a document that holds a titled
\* heading no link follows, and so has no heading+link match
C15_Witness ==
    /\ ran /\ snap.kind = "html"
    /\ MatchIds(snap.html, 1, TRUE) = <<>>
    /\ \E i \in 1..Len(snap.html) : snap.html[i].k = "h3" /\ snap.html[i].title # <<>>
    /\ Len(res.items) >= 2
    /\ \A i \in 1..Len(res.items) : res.items[i].title = res.items[i].id

\* C16: in src/api/recs.js a page is only ever opened on a context to which
\* the consent and preference cookies have already been added.
C16_CookiesBeforePage ==
    program = "recs" =>
        \A r \in Requests :
            req[r].page # "none" => contexts[req[r].context].cookies

\* C17: the cache changes only in the step in which a cache-miss request,
\* none of whose calls rejected, is answered 200 with its items: the entry of
\* that request's id becomes its items with the current time and every other
\* entry stays as it is.  A request answered from the cache, one that found
\* an expired entry, one refused by validation and one answered
\* scrape_failed leave the cache as it is, and no entry is ever removed.
C17_CacheFrame ==
    /\ [][recsCache' # recsCache =>
            \E r \in Requests :
                /\ req[r].pc = "close" /\ req'[r].pc = "done"
                /\ req[r].fault = "" /\ ~CacheHit(req[r].cached, req[r].lookupAt)
                /\ req'[r].resp = <<Response(200, req[r].items, "", FALSE)>>
                /\ DOMAIN recsCache' = DOMAIN recsCache \cup {req[r].videoId}
                /\ recsCache'[req[r].videoId] =
                      [found |-> TRUE, items |-> req[r].items, ts |-> now]
                /\ \A k \in DOMAIN recsCache :
                      k # req[r].videoId => recsCache'[k] = recsCache[k]]_vars
    /\ [][DOMAIN recsCache \subseteq DOMAIN recsCache']_vars
    /\ [][\A r \in Requests :
            (/\ req'[r] # req[r]
             /\ \/ req'[r].pc # "done"
                \/ req'[r].resp[1].status # 200
                \/ req'[r].resp[1].cached)
            => recsCache' = recsCache]_vars

\* the cache holds the entries of two ids; the second request found the
\* entry of its id expired, its scrape failed, and the entry is still there
\* as it was
C17_Witness ==
    /\ program = "recs"
    /\ \E r \in Requests :
          /\ Done(r) /\ req[r].cached.found
          /\ req[r].lookupAt - req[r].cached.ts >= CACHE_TTL_MS
          /\ req[r].fault # ""
          /\ EntryOf(req[r].videoId) = req[r].cached

\* the step of request r in src/api/recs.js in which its awaited call resolves
Resolves(r) ==
    \/ LaunchDone(r, TRUE)
    \/ NewContextDone(r, TRUE)
    \/ AddCookiesDone(r, TRUE)
    \/ NewPageDone(r, TRUE)
    \/ \E s \in PageSnapshots : GotoResolved(r, s)
    \/ EvaluateDone(r)
    \/ DomEvalDone(r, TRUE)
    \/ CloseDone(r)

C19_AtMostTwoFetches ==
    /\ [](program = "fetch" => \A r \in Requests :
            /\ Len(req[r].fetches) <= 2
            /\ Len(req[r].upstream) <= Len(req[r].fetches)
            /\ req[r].fetches \in {<<>>, <<"watchUrl">>, <<"watchUrl", "altUrl">>}
            /\ req[r].fault # "" =>
                  /\ Done(r)
                  /\ req[r].resp = <<Response(500, <<>>, "internal_error", FALSE)>>
            /\ (Done(r) /\ req[r].fetches # <<>> /\ req[r].fault = "") =>
                  /\ req[r].resp = <<Response(200, req[r].items, "", FALSE)>>
                  /\ req[r].upstream[Len(req[r].upstream)] = "notOk" => req[r].items = <<>>
                  /\ req[r].upstream[Len(req[r].upstream)] = "ok" =>
                        req[r].items = pickFromHtml(req[r].html, 12)
                  /\ Len(req[r].fetches) = 1 => req[r].items # <<>>)
    /\ [][program = "fetch" => \A r \in Requests :
            /\ (Len(req[r].fetches) = 1 /\ Len(req'[r].fetches) = 2) =>
                  /\ req'[r].fault = ""
                  /\ req'[r].items = <<>>
                  /\ \/ req'[r].upstream = <<"notOk">>
                     \/ /\ req'[r].upstream = <<"ok">>
                        /\ pickFromHtml(req'[r].html, 12) = <<>>
            /\ (Len(req[r].fetches) = 1 /\ req'[r].pc = "done" /\ req'[r].fault = "") =>
                  /\ req'[r].upstream = <<"ok">>
                  /\ pickFromHtml(req'[r].html, 12) # <<>>]_vars

\* one request was answered 200 with no items after two upstream answers
\* that were not OK; another was answered with an item after one fetch
C19_Witness ==
    \E r1, r2 \in Requests :
        /\ program = "fetch"
        /\ Done(r1) /\ req[r1].upstream = <<"notOk", "notOk">>
        /\ req[r1].fetches = <<"watchUrl", "altUrl">>
        /\ req[r1].resp = <<Response(200, <<>>, "", FALSE)>>
        /\ Done(r2) /\ req[r2].fetches = <<"watchUrl">>
        /\ req[r2].resp[1].status = 200 /\ req[r2].resp[1].items # <<>>

\* C20: when a cache-miss request of src/api/recs.js ends without exception
\* and with zero items from both tiers, an entry with an empty items list and
\* the current time is put in the cache; a request for that id received while
\* the entry is younger than the TTL is answered at once with an empty list
\* and cached:true, without a page and without navigation.
C20_EmptyResultCached ==
    /\ [][program = "recs" => \A r \in Requests :
            (req[r].pc = "close" /\ req'[r].pc = "done" /\ req[r].items = <<>>)
            => /\ req[r].evaluated /\ req[r].domRan
               /\ req[r].videoId \in DOMAIN recsCache'
               /\ recsCache'[req[r].videoId] = [found |-> TRUE, items |-> <<>>, ts |-> now]
               /\ req'[r].resp = <<Response(200, <<>>, "", FALSE)>>]_vars
    /\ [][program = "recs" => \A r \in Requests :
            (/\ req[r].pc = "idle" /\ req'[r].pc # "idle"
             /\ Trim(req'[r].v) \in DOMAIN recsCache
             /\ recsCache[Trim(req'[r].v)].items = <<>>
             /\ now - recsCache[Trim(req'[r].v)].ts < CACHE_TTL_MS)
            => /\ req'[r].pc = "done"
               /\ req'[r].resp = <<Response(200, <<>>, "", TRUE)>>
               /\ req'[r].page = "none" /\ req'[r].nav = "none"
               /\ req'[r].context = 0 /\ req'[r].target = 0
               /\ UNCHANGED <<browser, cachedContext, engines, contexts, recsCache>>]_vars

\* the first request got no item from either tier and was answered with an
\* empty list; the second, for the same id and one millisecond before the
\* entry expires, was answered from the cache with an empty list
C20_Witness ==
    /\ NumReq >= 2 /\ program = "recs"
    /\ Done(1) /\ req[1].evaluated /\ req[1].domRan /\ req[1].fault = ""
    /\ req[1].resp = <<Response(200, <<>>, "", FALSE)>>
    /\ Done(2) /\ req[2].videoId = req[1].videoId
    /\ req[2].cached.found /\ req[2].cached.items = <<>>
    /\ req[2].lookupAt - req[2].cached.ts = CACHE_TTL_MS - 1
    /\ req[2].resp = <<Response(200, <<>>, "", TRUE)>>
    /\ req[2].page = "none"

=============================================================================
